---- MODULE Spec2Model ----
(***************************************************************************)
(* GVRET <-> USR-CANET gateway: the frame model and the adapter codec      *)
(* (usr_canet.rs), the GVRET decoder and encoder (gvret.rs) and the        *)
(* select loop of main (main.rs).                                          *)
(*                                                                         *)
(* A u8 is an integer 0..255.  A u32 does not fit the model checker's      *)
(* signed 32-bit integers, so it is kept as its two 16-bit halves          *)
(* [hi, lo]; every u32 operation of the source is computed on the halves.  *)
(***************************************************************************)
EXTENDS Integers, Sequences, FiniteSets, TLC

VARIABLES
    busses,   \* main: 1 or 2, the number of connected adapter buses
    mode,     \* main: `mode`, the handshake Mode shared across iterations
    pc,       \* position of main: "select", "write", "flush", "aborted", "panicked"
    inbuf,    \* per socket: bytes (or read errors) received and not yet read
    dec,      \* the decode_gvret_frames future of this iteration: its position and buffers
    rbuf,     \* per adapter: bytes read so far by this iteration's decode_canet_frame
    wsock,    \* the write-half the running handler writes to ("none": nothing to write)
    wmsg,     \* the buffer the running handler hands to write_all
    wbuf,     \* the part of wmsg that write_all has not written yet
    out,      \* per socket: everything written, one record per write_all call
    last,     \* what the select branch that completed last produced
    sends,    \* number of deliveries the peers have made so far
    pin,      \* input of a function under test (function specifications)
    pout      \* its output

vars == <<busses, mode, pc, inbuf, dec, rbuf, wsock, wmsg, wbuf, out, last, sends, pin, pout>>

gvars == <<busses, mode, pc, inbuf, dec, rbuf, wsock, wmsg, wbuf, out, last, sends>>

----------------------------------------------------------------------------
(* Integer helpers *)

Min(a, b) == IF a < b THEN a ELSE b

Max(a, b) == IF a > b THEN a ELSE b

Pow2(k) == 2 ^ k

\* bit k of the byte b
Bit(b, k) == (b \div Pow2(k)) % 2

\* a | b on u8
BitOr8(a, b) ==
    LET or(k) == IF Bit(a, k) = 1 \/ Bit(b, k) = 1 THEN Pow2(k) ELSE 0
    IN  or(0) + or(1) + or(2) + or(3) + or(4) + or(5) + or(6) + or(7)

\* a & b on u8
BitAnd8(a, b) ==
    LET and(k) == IF Bit(a, k) = 1 /\ Bit(b, k) = 1 THEN Pow2(k) ELSE 0
    IN  and(0) + and(1) + and(2) + and(3) + and(4) + and(5) + and(6) + and(7)

\* (a << n) on u8: the bits shifted out are dropped
Shl8(a, n) == (a * Pow2(n)) % 256

\* the u32 with value n, for 0 <= n < 2^31
U32(n) == [hi |-> n \div 65536, lo |-> n % 65536]

\* a > b on u32
U32Gt(a, b) == a.hi > b.hi \/ (a.hi = b.hi /\ a.lo > b.lo)

\* a ^ (1 << 31)
XorBit31(a) == [a EXCEPT !.hi = IF a.hi >= 32768 THEN a.hi - 32768 ELSE a.hi + 32768]

\* a | (1 << 31)
OrBit31(a) == [a EXCEPT !.hi = IF a.hi >= 32768 THEN a.hi ELSE a.hi + 32768]

\* u32::from_le_bytes of a 4-byte sequence
from_le_bytes(b) == [hi |-> b[3] + 256 * b[4], lo |-> b[1] + 256 * b[2]]

\* u32::to_le_bytes
to_le_bytes(a) == <<a.lo % 256, a.lo \div 256, a.hi % 256, a.hi \div 256>>

\* BigEndian::read_u32 of the first 4 bytes of b
read_u32(b) == [hi |-> 256 * b[1] + b[2], lo |-> 256 * b[3] + b[4]]

\* BigEndian::write_u32: the 4 bytes written
write_u32(a) == <<a.hi \div 256, a.hi % 256, a.lo \div 256, a.lo % 256>>

\* n zero bytes
Zeros(n) == [i \in 1..n |-> 0]

----------------------------------------------------------------------------
(* usr_canet.rs: the frame model *)

CAN_EXT_ID_MASK == 536870911

CAN_STD_ID_MASK == 2047

CAN_MAX_DLC == 8

Ok(v) == [tag |-> "Ok", val |-> v]

Err(e) == [tag |-> "Err", err |-> e]

\* mutant of validate_id: the range check is off by one
validate_id_off_by_one(id, ext_id) ==
    IF ext_id
    THEN IF ~U32Gt(U32(CAN_EXT_ID_MASK), id) THEN Err("IdTooLong") ELSE Ok(<<>>)
    ELSE IF ~U32Gt(U32(CAN_STD_ID_MASK), id) THEN Err("IdTooLong") ELSE Ok(<<>>)

\* CanFrameError::validate_id
validate_id(id, ext_id) ==
    IF ext_id
    THEN IF U32Gt(id, U32(CAN_EXT_ID_MASK)) THEN Err("IdTooLong") ELSE Ok(<<>>)
    ELSE IF U32Gt(id, U32(CAN_STD_ID_MASK)) THEN Err("IdTooLong") ELSE Ok(<<>>)

\* DataFrame::new
DataFrame_new(id, ext_id, data) ==
    IF validate_id(id, ext_id).tag = "Err" THEN validate_id(id, ext_id)
    ELSE IF Len(data) > CAN_MAX_DLC THEN Err("DataTooLong")
    ELSE Ok([id |-> id, ext_id |-> ext_id, data |-> data])

\* RemoteFrame::new
RemoteFrame_new(id, ext_id, dlc) ==
    IF validate_id(id, ext_id).tag = "Err" THEN validate_id(id, ext_id)
    ELSE IF dlc > CAN_MAX_DLC THEN Err("DataTooLong")
    ELSE Ok([id |-> id, ext_id |-> ext_id, dlc |-> dlc])

\* the enum Message: Message::Data(bus, DataFrame) and Message::Remote(bus, RemoteFrame)
Message_Data(bus, frame) == [kind |-> "Data", bus |-> bus, frame |-> frame]

Message_Remote(bus, frame) == [kind |-> "Remote", bus |-> bus, frame |-> frame]

\* Message::new_data
Message_new_data(bus, id, ext_id, data) ==
    IF validate_id(id, ext_id).tag = "Err" THEN validate_id(id, ext_id)
    ELSE IF Len(data) > CAN_MAX_DLC THEN Err("DataTooLong")
    ELSE Ok(Message_Data(bus, [id |-> id, ext_id |-> ext_id, data |-> data]))

\* Message::new_remote
Message_new_remote(bus, id, ext_id, dlc) ==
    IF validate_id(id, ext_id).tag = "Err" THEN validate_id(id, ext_id)
    ELSE IF dlc > CAN_MAX_DLC THEN Err("DataTooLong")
    ELSE IF RemoteFrame_new(id, ext_id, dlc).tag = "Err" THEN RemoteFrame_new(id, ext_id, dlc)
    ELSE Ok(Message_Remote(bus, RemoteFrame_new(id, ext_id, dlc).val))

\* Message::data: the payload, or "None" for a remote frame
Message_data(msg) ==
    IF msg.kind = "Data" THEN [tag |-> "Some", val |-> msg.frame.data] ELSE [tag |-> "None"]

\* Message::bus
Message_bus(msg) == msg.bus

\* Message::id
Message_id(msg) == msg.frame.id

\* Message::ext_id
Message_ext_id(msg) == msg.frame.ext_id

\* Message::dlc (DataFrame::dlc is data.len() as u8)
Message_dlc(msg) == IF msg.kind = "Data" THEN Len(msg.frame.data) % 256 ELSE msg.frame.dlc

----------------------------------------------------------------------------
(* usr_canet.rs: the 13-byte adapter codec *)

Some(v) == [tag |-> "Some", val |-> v]

None == [tag |-> "None"]

Panic(why) == [tag |-> "Panic", why |-> why]

\* decode_canet_frame, the Ok arm of the 13-byte read: buf is the buffer read.
\* The payload slice &buf[5..5 + dlc] is taken before Message::new_data is
\* called, and indexing past the 13 bytes panics.
decode_canet_frame(buf, bus) ==
    LET ext_id == BitAnd8(buf[1], 128) # 0
        id     == read_u32(SubSeq(buf, 2, 13))
        dlc    == BitAnd8(buf[1], 15)
    IN  IF BitAnd8(buf[1], 64) # 0
        THEN IF Message_new_remote(bus, id, ext_id, dlc).tag = "Ok"
             THEN Some(Message_new_remote(bus, id, ext_id, dlc).val)
             ELSE None
        ELSE IF 5 + dlc > Len(buf)
             THEN Panic("slice index out of range")
             ELSE IF Message_new_data(bus, id, ext_id, SubSeq(buf, 6, 5 + dlc)).tag = "Ok"
                  THEN Some(Message_new_data(bus, id, ext_id, SubSeq(buf, 6, 5 + dlc)).val)
                  ELSE None

\* the enum CanetMsg
CanetMsg_Can1(buf) == [tag |-> "Can1", buf |-> buf]

CanetMsg_Can2(buf) == [tag |-> "Can2", buf |-> buf]

\* mutant of convert_to_canet: the remote flag (bit 6) is not set
convert_to_canet_no_rtr(msg) ==
    LET b0   == BitOr8(IF Message_ext_id(msg) THEN 128 ELSE 0, BitAnd8(Message_dlc(msg), 15))
        id4  == write_u32(Message_id(msg))
        body == IF msg.kind = "Data"
                THEN msg.frame.data \o Zeros(8 - Len(msg.frame.data))
                ELSE Zeros(8)
        buf  == <<b0>> \o id4 \o body
        bus  == Max(msg.bus, 1)
    IN  IF msg.kind = "Data" /\ Len(msg.frame.data) > 8 THEN Panic("slice index out of range")
        ELSE IF bus = 0 THEN CanetMsg_Can1(buf)
        ELSE IF bus = 1 THEN CanetMsg_Can2(buf)
        ELSE Panic("unreachable")

\* convert_to_canet: the 13 bytes and the connection chosen; the bus is
\* raised to at least 1 (.max(1)) before the match, whose last arm is
\* unreachable!()
convert_to_canet(msg) ==
    LET b0   == BitOr8(IF Message_ext_id(msg) THEN 128 ELSE 0, BitAnd8(Message_dlc(msg), 15))
        id4  == write_u32(Message_id(msg))
        body == IF msg.kind = "Data"
                THEN msg.frame.data \o Zeros(8 - Len(msg.frame.data))
                ELSE Zeros(8)
        buf  == IF msg.kind = "Data"
                THEN <<b0>> \o id4 \o body
                ELSE <<BitOr8(b0, 64)>> \o write_u32(msg.frame.id) \o body
        bus  == Max(msg.bus, 1)
    IN  IF msg.kind = "Data" /\ Len(msg.frame.data) > 8 THEN Panic("slice index out of range")
        ELSE IF bus = 0 THEN CanetMsg_Can1(buf)
        ELSE IF bus = 1 THEN CanetMsg_Can2(buf)
        ELSE Panic("unreachable")

----------------------------------------------------------------------------
(* gvret.rs: the analysis protocol *)

\* mutant of Mode_from: the arm for 0xe7 is missing
Mode_from_no_binary(value) ==
    IF value = 241 THEN "Command" ELSE "Init"

\* mutant of Mode_from: the default arm is Command
Mode_from_default_command(value) ==
    IF value = 231 THEN "Binary" ELSE "Command"

\* mutant of Mode_from: the command prefix 0xf1 is taken for the handshake too
Mode_from_prefix_is_binary(value) ==
    IF value = 231 \/ value = 241 THEN "Binary" ELSE "Init"

\* impl From<u8> for Mode
Mode_from(value) ==
    IF value = 231 THEN "Binary" ELSE IF value = 241 THEN "Command" ELSE "Init"

\* mutant of GVRETProtocol_from: a value that is not enumerated is KeepAlive
GVRETProtocol_from_unknown_keepalive(value) ==
    CASE value = 0 -> "BuildCanFrame"
      [] value = 1 -> "TimeSync"
      [] value = 2 -> "DigInputs"
      [] value = 3 -> "AnaInputs"
      [] value = 4 -> "SetDigOut"
      [] value = 5 -> "SetupCanBus"
      [] value = 6 -> "GetCanBusParams"
      [] value = 7 -> "GetDevInfo"
      [] value = 8 -> "SetSwMode"
      [] value = 9 -> "KeepAlive"
      [] value = 10 -> "SetSysType"
      [] value = 11 -> "EchoCanFrame"
      [] value = 12 -> "GetNumBuses"
      [] value = 13 -> "GetExtBuses"
      [] value = 14 -> "SetExtBuses"
      [] value = 20 -> "BuildFdFrame"
      [] value = 21 -> "SetupFd"
      [] value = 22 -> "GetFd"
      [] OTHER -> "KeepAlive"

\* impl From<u8> for GVRETProtocol
GVRETProtocol_from(value) ==
    CASE value = 0 -> "BuildCanFrame"
      [] value = 1 -> "TimeSync"
      [] value = 2 -> "DigInputs"
      [] value = 3 -> "AnaInputs"
      [] value = 4 -> "SetDigOut"
      [] value = 5 -> "SetupCanBus"
      [] value = 6 -> "GetCanBusParams"
      [] value = 7 -> "GetDevInfo"
      [] value = 8 -> "SetSwMode"
      [] value = 9 -> "KeepAlive"
      [] value = 10 -> "SetSysType"
      [] value = 11 -> "EchoCanFrame"
      [] value = 12 -> "GetNumBuses"
      [] value = 13 -> "GetExtBuses"
      [] value = 14 -> "SetExtBuses"
      [] value = 20 -> "BuildFdFrame"
      [] value = 21 -> "SetupFd"
      [] value = 22 -> "GetFd"
      [] OTHER -> "BuildCanFrame"

\* mutant of get_canbus_params: the second bus is always reported
get_canbus_params_always_port2(port2) ==
    LET can_baud == to_le_bytes(U32(500000))
    IN  <<241, 6, 1>> \o can_baud \o <<1>> \o can_baud

\* get_canbus_params
get_canbus_params(port2) ==
    LET can_baud == to_le_bytes(U32(500000))
    IN  <<241, 6, 1>> \o can_baud \o (IF port2 THEN <<1>> \o can_baud ELSE <<>>)

\* get_num_busses
get_num_busses(n) == <<241, 12, n>>

\* get_dev_info
get_dev_info == <<241, 7, 106, 2, 32, 0, 0, 0>>

\* get_timesync: elapsed is now.elapsed().as_micros() as u32
get_timesync(elapsed) == <<241, 1>> \o to_le_bytes(elapsed)

\* get_keepalive
get_keepalive == <<241, 9, 222, 173>>

\* GVRETProtocol::process: every arm but three is todo!()
process(cmd) ==
    CASE cmd = "GetDevInfo" -> Ok(get_dev_info)
      [] cmd = "KeepAlive" -> Ok(get_keepalive)
      [] cmd = "GetExtBuses" -> Ok(<<241, 13>> \o Zeros(15))
      [] OTHER -> Panic("not yet implemented")

\* build_can_frame: frame_data is the 8-byte buffer, zero past the bytes read
build_can_frame(frame_header, frame_data) ==
    LET raw    == from_le_bytes(SubSeq(frame_header, 1, 4))
        ext_id == U32Gt(raw, U32(CAN_STD_ID_MASK))
        id     == IF ext_id THEN XorBit31(raw) ELSE raw
        dlc    == Min(BitAnd8(frame_header[6], 15), 8)
        bus    == BitAnd8(frame_header[5], 3)
        frame  == DataFrame_new(id, ext_id, SubSeq(frame_data, 1, dlc))
    IN  IF ext_id /\ ~U32Gt(U32(CAN_EXT_ID_MASK), id) THEN Panic("assertion failed")
        ELSE IF ~ext_id /\ ~U32Gt(U32(CAN_STD_ID_MASK), id) THEN Panic("assertion failed")
        ELSE IF frame.tag = "Err" THEN Panic("unwrap on Err")
        ELSE Ok(Message_Data(bus, frame.val))

\* mutant of convert_to_gvret: bit 31 of the identifier is never set
convert_to_gvret_no_ext_bit(message, elapsed) ==
    IF Message_data(message).tag = "None" THEN None
    ELSE IF Message_dlc(message) > 8 THEN None
    ELSE LET byte == BitOr8(Shl8(Message_bus(message), 4), BitAnd8(Message_dlc(message), 15))
         IN  Some(<<241, 0>> \o to_le_bytes(elapsed) \o to_le_bytes(Message_id(message))
                  \o <<byte>> \o Message_data(message).val \o <<0>>)

\* mutant of convert_to_gvret: a remote frame is reported with an empty payload
convert_to_gvret_reports_remote(message, elapsed) ==
    IF Message_dlc(message) > 8 THEN None
    ELSE LET id   == IF Message_ext_id(message)
                     THEN OrBit31(Message_id(message)) ELSE Message_id(message)
             byte == BitOr8(Shl8(Message_bus(message), 4), BitAnd8(Message_dlc(message), 15))
             data == IF Message_data(message).tag = "None" THEN <<>>
                     ELSE Message_data(message).val
         IN  Some(<<241, 0>> \o to_le_bytes(elapsed) \o to_le_bytes(id)
                  \o <<byte>> \o data \o <<0>>)

\* convert_to_gvret: elapsed is now.elapsed().as_micros() as u32
convert_to_gvret(message, elapsed) ==
    IF Message_data(message).tag = "None" THEN None
    ELSE IF Message_dlc(message) > 8 THEN None
    ELSE LET id   == IF Message_ext_id(message)
                     THEN OrBit31(Message_id(message)) ELSE Message_id(message)
             byte == BitOr8(Shl8(Message_bus(message), 4), BitAnd8(Message_dlc(message), 15))
         IN  Some(<<241, 0>> \o to_le_bytes(elapsed) \o to_le_bytes(id)
                  \o <<byte>> \o Message_data(message).val \o <<0>>)

----------------------------------------------------------------------------
(* Sockets and reads *)

Sockets == {"gvret", "canet1", "canet2"}

Adapters == {"canet1", "canet2"}

\* An item of a receive buffer is a byte, or a negative number: a read error
\* the next read of the socket returns.
IsErr(x) == x < 0

\* now.elapsed().as_micros() as u32 at a call: any value
Timestamps == {U32(1), U32(16909060)}

\* the number of bytes a read of at most `want` bytes gets from `stream`
Avail(stream, want) ==
    LET errs == {i \in 1..Len(stream) : IsErr(stream[i])}
        n    == IF errs = {} THEN Len(stream)
                ELSE (CHOOSE i \in errs : \A j \in errs : i <= j) - 1
    IN  Min(n, want)

\* mutant of read_exact: a read error is taken for a zero byte
read_exact_error_as_zero(stream, have, need) ==
    LET k == Avail(stream, need - Len(have))
    IN  IF Len(have) = need
        THEN [res |-> "Ok", buf |-> have, rest |-> stream]
        ELSE IF k = 0
        THEN [res  |-> IF Len(have) + 1 = need THEN "Ok" ELSE "Pending",
              buf  |-> have \o <<0>>,
              rest |-> Tail(stream)]
        ELSE [res  |-> IF Len(have) + k = need THEN "Ok" ELSE "Pending",
              buf  |-> have \o SubSeq(stream, 1, k),
              rest |-> SubSeq(stream, k + 1, Len(stream))]

\* One poll of read_exact on a socket whose receive buffer `stream` is not
\* empty: `have` are the bytes of the buffer filled so far, `need` its length.
\* The read takes what has arrived; an error is returned when it comes first.
read_exact(stream, have, need) ==
    LET k == Avail(stream, need - Len(have))
    IN  IF Len(have) = need
        THEN [res |-> "Ok", buf |-> have, rest |-> stream]
        ELSE IF k = 0
        THEN [res |-> "Err", buf |-> have, rest |-> Tail(stream)]
        ELSE [res  |-> IF Len(have) + k = need THEN "Ok" ELSE "Pending",
              buf  |-> have \o SubSeq(stream, 1, k),
              rest |-> SubSeq(stream, k + 1, Len(stream))]

----------------------------------------------------------------------------
(* gvret.rs: decode_gvret_frames, one read at a time *)

\* the future at the top of its byte loop
DecTop == [st |-> "top", cmd |-> 0, header |-> <<>>, data |-> <<>>]

\* what the future has returned: nothing yet, Gvret::Frame, Gvret::Init, or a panic
Running == [tag |-> "Running"]

Gvret_Frame(message) == [tag |-> "Frame", val |-> message]

Gvret_Init(resp) == [tag |-> "Init", val |-> resp]

\* dlc of the decoder: (frame_header[5] & 0xf).min(8)
HeaderDlc(frame_header) == Min(BitAnd8(frame_header[6], 15), 8)

\* the value of the match on cmd for the commands that build a response
Response(cmd, num_busses, elapsed) ==
    CASE cmd = "GetCanBusParams" -> Ok(get_canbus_params(num_busses > 1))
      [] cmd = "TimeSync" -> Ok(get_timesync(elapsed))
      [] cmd = "GetNumBuses" -> Ok(get_num_busses(num_busses))
      [] OTHER -> process(cmd)

\* return Gvret::Frame(build_can_frame(..)), or the panic of build_can_frame
ReturnFrame(frame_header, frame_data) ==
    IF build_can_frame(frame_header, frame_data).tag = "Ok"
    THEN Gvret_Frame(build_can_frame(frame_header, frame_data).val)
    ELSE build_can_frame(frame_header, frame_data)

\* decode_gvret_frames from position d to its next read: the next position,
\* what is left in the receive buffer, the mode, and what was returned
decode_gvret_frames(d, stream, m, num_busses, elapsed) ==
    LET need == CASE d.st = "header" -> 6
                  [] d.st = "data" -> HeaderDlc(d.header)
                  [] OTHER -> 1
        have == CASE d.st = "header" -> d.header
                  [] d.st = "data" -> d.data
                  [] OTHER -> <<>>
        r    == read_exact(stream, have, need)
        go(nd, nm, ret) == [dec |-> nd, rest |-> r.rest, mode |-> nm, ret |-> ret]
        cmd  == GVRETProtocol_from(r.buf[1])
    IN  CASE d.st = "top" ->
               IF r.res = "Err" THEN go(DecTop, m, Running)
               ELSE IF Mode_from(r.buf[1]) = "Binary" /\ m = "Init"
                    THEN go(DecTop, "Binary", Running)
               ELSE IF Mode_from(r.buf[1]) # "Command" THEN go(DecTop, m, Running)
               ELSE go([DecTop EXCEPT !.st = "cmd"], m, Running)
          [] d.st = "cmd" ->
               IF r.res = "Err" THEN go(DecTop, m, Running)
               ELSE IF cmd = "BuildCanFrame"
                    THEN go([DecTop EXCEPT !.st = "header", !.cmd = r.buf[1]], m, Running)
               ELSE IF Response(cmd, num_busses, elapsed).tag = "Ok"
                    THEN go([d EXCEPT !.cmd = r.buf[1]], m,
                            Gvret_Init(Response(cmd, num_busses, elapsed).val))
               ELSE go([d EXCEPT !.cmd = r.buf[1]], m, Response(cmd, num_busses, elapsed))
          [] d.st = "header" ->
               IF r.res = "Err" THEN go(DecTop, m, Running)
               ELSE IF r.res = "Pending" THEN go([d EXCEPT !.header = r.buf], m, Running)
               ELSE IF HeaderDlc(r.buf) = 0
                    THEN go([d EXCEPT !.header = r.buf], m, ReturnFrame(r.buf, Zeros(8)))
               ELSE go([d EXCEPT !.st = "data", !.header = r.buf], m, Running)
          [] d.st = "data" ->
               IF r.res = "Err" THEN go(DecTop, m, Running)
               ELSE IF r.res = "Pending" THEN go([d EXCEPT !.data = r.buf], m, Running)
               ELSE go([d EXCEPT !.data = r.buf], m,
                       ReturnFrame(d.header, r.buf \o Zeros(8 - Len(r.buf))))

----------------------------------------------------------------------------
(* The peers: what the client and the adapters deliver *)

\* deliveries the peers make in one run
MaxSends == 2

\* bytes a short write accepts (a write takes this many bytes, or all that is left)
ShortWrite == 6

\* what the analysis client delivers in one segment
ClientChunks ==
    { <<231>>,                                      \* the handshake byte 0xE7
      <<241, 9>>,                                   \* KeepAlive
      <<241, 12>>,                                  \* GetNumBuses
      <<241, 1>>,                                   \* TimeSync
      <<241, 2>>,                                   \* DigInputs (reserved)
      <<241, 0, 1, 0, 0, 0, 0, 2, 170, 187>>,       \* frame: id 1, bus 0, 2 bytes
      <<241, 0, 1, 0, 0, 0, 1, 2, 170, 187>>,       \* frame: id 1, bus 1, 2 bytes
      <<241, 0, 1, 0, 0, 0, 2, 0>>,                 \* frame: id 1, bus 2, no data
      <<241, 0, 255, 7, 0, 0, 0, 0>>,               \* frame: raw id 0x7FF
      <<241, 0, 0, 8, 0, 128, 1, 1, 231>>,          \* frame: raw id 0x80000800, bus 1
      <<241, 15, 1, 0, 0, 0, 1, 1, 241>>,           \* command 15 (not enumerated)
      <<241, 0, 1, 0>>,                             \* the first half of a frame command
      <<0, 0, 1, 2, 170, 187>>,                     \* its second half
      <<85>>,                                       \* a stray byte
      <<241, -1>>,                                  \* a prefix, then a read error
      <<-1>> }                                      \* a read error

\* what an adapter delivers in one segment
AdapterChunks ==
    { <<2, 0, 0, 0, 1, 17, 34, 0, 0, 0, 0, 0, 0>>,      \* data, id 1, 2 bytes
      <<130, 0, 0, 7, 255, 17, 34, 0, 0, 0, 0, 0, 0>>,  \* data, extended id 0x7FF
      <<65, 0, 0, 0, 1, 0, 0, 0, 0, 0, 0, 0, 0>>,       \* remote, id 1, dlc 1
      <<0, 0, 0, 8, 0, 0, 0, 0, 0, 0, 0, 0, 0>>,        \* data, standard id 0x800
      <<9, 0, 0, 0, 1, 0, 0, 0, 0, 0, 0, 0, 0>>,        \* data, DLC nibble 9
      <<73, 0, 0, 0, 1, 0, 0, 0, 0, 0, 0, 0, 0>>,       \* remote, DLC nibble 9
      <<2, 0, 0, 0, 1>>,                                \* the first 5 bytes of a frame
      <<17, 34, 0, 0, 0, 0, 0, 0>>,                     \* its last 8 bytes
      <<-1>> }                                          \* a read error

\* the client or an adapter delivers a segment to the gateway's socket
PeerSend(sock, chunk) ==
    /\ sends < MaxSends
    /\ pc \notin {"aborted", "panicked"}
    /\ sock = "canet2" => busses = 2
    /\ inbuf' = [inbuf EXCEPT ![sock] = @ \o chunk]
    /\ sends' = sends + 1
    /\ UNCHANGED <<busses, mode, pc, dec, rbuf, wsock, wmsg, wbuf, out, last, pin, pout>>

ClientSend == \E chunk \in ClientChunks : PeerSend("gvret", chunk)

Canet1Send == \E chunk \in AdapterChunks : PeerSend("canet1", chunk)

Canet2Send == \E chunk \in AdapterChunks : PeerSend("canet2", chunk)

----------------------------------------------------------------------------
(* main.rs: the select loop *)

NoLast == [src |-> "none"]

\* mutant of SelectArmed: the branches are polled while a handler is writing
SelectArmedAlways == pc \in {"select", "write", "flush"}

\* the three futures are polled only inside select!, never while a handler runs
SelectArmed == pc = "select"

\* tokio::select! drops the futures of all branches when one completes
DropFutures ==
    /\ dec' = DecTop
    /\ rbuf' = [a \in Adapters |-> <<>>]

\* w.write_all(&data) begins
StartWrite(sock, msg) ==
    /\ pc' = "write"
    /\ wsock' = sock
    /\ wmsg' = msg
    /\ wbuf' = msg
    /\ out' = [out EXCEPT ![sock] = Append(@, [msg |-> msg, written |-> <<>>])]

\* the handler writes nothing and the loop goes on
NoWrite ==
    /\ pc' = "select"
    /\ wsock' = "none"
    /\ wmsg' = <<>>
    /\ wbuf' = <<>>
    /\ out' = out

\* a panic unwinds main
Crash ==
    /\ pc' = "panicked"
    /\ UNCHANGED <<wsock, wmsg, wbuf, out>>

\* mutant of HandleGvret: without a second connection a frame for it goes to
\* the first connection
HandleGvret_falls_back_to_canet1(result) ==
    IF result.tag = "Panic" THEN Crash
    ELSE IF result.tag = "Init" THEN StartWrite("gvret", result.val)
    ELSE IF convert_to_canet(result.val).tag = "Panic" THEN Crash
    ELSE IF convert_to_canet(result.val).tag = "Can1"
         THEN StartWrite("canet1", convert_to_canet(result.val).buf)
    ELSE IF busses = 2
         THEN StartWrite("canet2", convert_to_canet(result.val).buf)
    ELSE StartWrite("canet1", convert_to_canet(result.val).buf)

\* the handler of the first branch: result = decode_gvret_frames(..)
HandleGvret(result) ==
    IF result.tag = "Panic" THEN Crash
    ELSE IF result.tag = "Init" THEN StartWrite("gvret", result.val)
    ELSE IF convert_to_canet(result.val).tag = "Panic" THEN Crash
    ELSE IF convert_to_canet(result.val).tag = "Can1"
         THEN StartWrite("canet1", convert_to_canet(result.val).buf)
    ELSE IF busses = 2
         THEN StartWrite("canet2", convert_to_canet(result.val).buf)
    ELSE NoWrite

\* the first branch of select!: decode_gvret_frames reads the client socket
GvretRead ==
    /\ SelectArmed
    /\ inbuf["gvret"] # <<>>
    /\ \E elapsed \in Timestamps :
         LET s == decode_gvret_frames(dec, inbuf["gvret"], mode, busses, elapsed)
         IN  /\ inbuf' = [inbuf EXCEPT !["gvret"] = s.rest]
             /\ mode' = s.mode
             /\ IF s.ret.tag = "Running"
                THEN /\ dec' = s.dec
                     /\ UNCHANGED <<rbuf, pc, wsock, wmsg, wbuf, out, last>>
                ELSE /\ DropFutures
                     /\ last' = [src |-> "gvret", ret |-> s.ret, dec |-> s.dec]
                     /\ HandleGvret(s.ret)
    /\ UNCHANGED <<busses, sends, pin, pout>>

\* the handler of an adapter branch: result is the Option<Message>
HandleCanet(result, elapsed) ==
    IF result.tag = "Panic" THEN Crash
    ELSE IF result.tag = "None" THEN NoWrite
    ELSE IF convert_to_gvret(result.val, elapsed).tag = "Some"
         THEN StartWrite("gvret", convert_to_gvret(result.val, elapsed).val)
    ELSE NoWrite

\* an adapter branch of select!: decode_canet_frame(sock, bus) reads 13 bytes;
\* the branch of the second bus is pending forever when it is not connected
CanetRead(sock, bus) ==
    /\ SelectArmed
    /\ sock = "canet2" => busses = 2
    /\ inbuf[sock] # <<>>
    /\ \E elapsed \in Timestamps :
         LET r      == read_exact(inbuf[sock], rbuf[sock], 13)
             result == IF r.res = "Err" THEN None ELSE decode_canet_frame(r.buf, bus)
         IN  /\ inbuf' = [inbuf EXCEPT ![sock] = r.rest]
             /\ IF r.res = "Pending"
                THEN /\ rbuf' = [rbuf EXCEPT ![sock] = r.buf]
                     /\ UNCHANGED <<dec, pc, wsock, wmsg, wbuf, out, last>>
                ELSE /\ DropFutures
                     /\ last' = [src |-> sock, ret |-> result, buf |-> r.buf]
                     /\ HandleCanet(result, elapsed)
    /\ UNCHANGED <<busses, mode, sends, pin, pout>>

Canet1Read == CanetRead("canet1", 0)

Canet2Read == CanetRead("canet2", 1)

\* write_all: the socket takes ShortWrite bytes of the rest, or all of it
WriteChunk ==
    /\ pc = "write"
    /\ \E k \in {Min(ShortWrite, Len(wbuf)), Len(wbuf)} :
         /\ out' = [out EXCEPT ![wsock][Len(out[wsock])].written = @ \o SubSeq(wbuf, 1, k)]
         /\ wbuf' = SubSeq(wbuf, k + 1, Len(wbuf))
         /\ pc' = IF k = Len(wbuf) THEN "flush" ELSE "write"
    /\ UNCHANGED <<busses, mode, inbuf, dec, rbuf, wsock, wmsg, last, sends, pin, pout>>

\* flush succeeds and the loop selects again
Flush ==
    /\ pc = "flush"
    /\ pc' = "select"
    /\ UNCHANGED <<busses, mode, inbuf, dec, rbuf, wsock, wmsg, wbuf, out, last, sends, pin, pout>>

\* write_all or flush returns an error and `?` returns it from main
WriteFail ==
    /\ pc \in {"write", "flush"}
    /\ pc' = "aborted"
    /\ UNCHANGED <<busses, mode, inbuf, dec, rbuf, wsock, wmsg, wbuf, out, last, sends, pin, pout>>

\* main up to the loop: mode = Mode::Init, one or two adapter connections
GatewayStart ==
    /\ mode = "Init"
    /\ pc = "select"
    /\ inbuf = [s \in Sockets |-> <<>>]
    /\ dec = DecTop
    /\ rbuf = [a \in Adapters |-> <<>>]
    /\ wsock = "none"
    /\ wmsg = <<>>
    /\ wbuf = <<>>
    /\ out = [s \in Sockets |-> <<>>]
    /\ last = NoLast
    /\ sends = 0

NoCall == [fn |-> "none"]

Init ==
    /\ busses \in {1, 2}
    /\ GatewayStart
    /\ pin = NoCall
    /\ pout = NoCall

Next ==
    \/ ClientSend
    \/ Canet1Send
    \/ Canet2Send
    \/ GvretRead
    \/ Canet1Read
    \/ Canet2Read
    \/ WriteChunk
    \/ Flush
    \/ WriteFail

Spec == Init /\ [][Next]_vars

----------------------------------------------------------------------------
(* The gateway with a client that sends query commands and commands cut short
   by a read error *)

\* what the analysis client delivers in one segment
QueryChunks ==
    { <<231>>,                                      \* the handshake byte 0xE7
      <<241, 1>>,                                   \* TimeSync
      <<241, 6>>,                                   \* GetCanBusParams
      <<241, 7>>,                                   \* GetDevInfo
      <<241, 9>>,                                   \* KeepAlive
      <<241, 12>>,                                  \* GetNumBuses
      <<241, 13>>,                                  \* GetExtBuses
      <<241, -1>>,                                  \* read error at the command byte
      <<241, 0, 1, 0, -1>>,                         \* read error in the header
      <<241, 0, 1, 0, 0, 0, 0, 2, 170, -1>>,        \* read error in the payload
      <<241, 0, 1, 0, 0, 0, 0, 2, 170, 187>> }      \* frame: id 1, bus 0, 2 bytes

\* what an adapter delivers in one segment
QueryAdapterChunks ==
    { <<2, 0, 0, 0, 1, 17, 34, 0, 0, 0, 0, 0, 0>>,  \* data, id 1, 2 bytes
      <<-1>> }                                      \* a read error

QueryClientSend == \E chunk \in QueryChunks : PeerSend("gvret", chunk)

QueryCanet1Send == \E chunk \in QueryAdapterChunks : PeerSend("canet1", chunk)

QueryCanet2Send == \E chunk \in QueryAdapterChunks : PeerSend("canet2", chunk)

QueryNext ==
    \/ QueryClientSend
    \/ QueryCanet1Send
    \/ QueryCanet2Send
    \/ GvretRead
    \/ Canet1Read
    \/ Canet2Read
    \/ WriteChunk
    \/ Flush
    \/ WriteFail

SpecQuery == Init /\ [][QueryNext]_vars

\* A poll of the first branch that takes bytes from the client's socket. The
\* steps of the gateway that satisfy it are the steps of GvretRead, and it is
\* enabled exactly when GvretRead is: in the select with bytes to read.
GvretPolled ==
    /\ SelectArmed
    /\ inbuf["gvret"] # <<>>
    /\ \E k \in 1..Len(inbuf["gvret"]) :
         inbuf' = [inbuf EXCEPT !["gvret"] = SubSeq(@, k + 1, Len(@))]

\* A poll of an adapter branch that takes bytes from its socket: the steps of
\* CanetRead(sock, _), enabled exactly when it is.
CanetPolled(sock) ==
    /\ SelectArmed
    /\ sock = "canet2" => busses = 2
    /\ inbuf[sock] # <<>>
    /\ \E k \in 1..Len(inbuf[sock]) :
         inbuf' = [inbuf EXCEPT ![sock] = SubSeq(@, k + 1, Len(@))]

\* The same gateway under fair scheduling: select! polls every branch, so a
\* branch that stays ready is eventually taken, and a write of the kernel
\* that can proceed does so; that a write never fails is not assumed.
SpecFair ==
    /\ SpecQuery
    /\ WF_inbuf(GvretPolled)
    /\ WF_inbuf(CanetPolled("canet1"))
    /\ WF_inbuf(CanetPolled("canet2"))
    /\ WF_vars(WriteChunk)
    /\ WF_vars(Flush)

----------------------------------------------------------------------------
(* Function specifications: the frame constructors, the adapter codec and
   build_can_frame applied to inputs drawn from bounded sets; the gateway
   itself does not run. *)

\* longest payload, and largest declared dlc, tried
MaxLen == 10

\* identifiers tried: 0, 1, both masks, both masks + 1, bit 31 alone, u32::MAX
TestIds ==
    { U32(0), U32(1), U32(CAN_STD_ID_MASK), U32(CAN_STD_ID_MASK + 1),
      U32(CAN_EXT_ID_MASK), U32(CAN_EXT_ID_MASK + 1),
      [hi |-> 32768, lo |-> 0], [hi |-> 65535, lo |-> 65535] }

\* bus indices of the frame model
FrameBuses == {0, 1}

\* a payload of n bytes
Payload(n) == [i \in 1..n |-> 16 + i]

FnIdle ==
    /\ busses = 1
    /\ GatewayStart
    /\ pout = NoCall

FrameInit ==
    /\ FnIdle
    /\ pin \in [bus : FrameBuses, id : TestIds, ext_id : BOOLEAN, len : 0..MaxLen]

Call(fn, res) ==
    /\ pout = NoCall
    /\ pout' = [fn |-> fn, res |-> res]
    /\ UNCHANGED <<gvars, pin>>

CallNewData ==
    Call("Message::new_data", Message_new_data(pin.bus, pin.id, pin.ext_id, Payload(pin.len)))

CallNewRemote ==
    Call("Message::new_remote", Message_new_remote(pin.bus, pin.id, pin.ext_id, pin.len))

CallDataFrameNew ==
    Call("DataFrame::new", DataFrame_new(pin.id, pin.ext_id, Payload(pin.len)))

CallRemoteFrameNew ==
    Call("RemoteFrame::new", RemoteFrame_new(pin.id, pin.ext_id, pin.len))

FrameNext ==
    \/ CallNewData
    \/ CallNewRemote
    \/ CallDataFrameNew
    \/ CallRemoteFrameNew

SpecFrame == FrameInit /\ [][FrameNext]_vars

\* every frame the constructors accept, on the buses of the frame model
ValidFrames ==
    { Message_new_data(b, id, e, Payload(n)).val :
        <<b, id, e, n>> \in { x \in FrameBuses \X TestIds \X BOOLEAN \X (0..MaxLen) :
                                Message_new_data(x[1], x[2], x[3], Payload(x[4])).tag = "Ok" } }
    \cup
    { Message_new_remote(b, id, e, n).val :
        <<b, id, e, n>> \in { x \in FrameBuses \X TestIds \X BOOLEAN \X (0..MaxLen) :
                                Message_new_remote(x[1], x[2], x[3], x[4]).tag = "Ok" } }

CodecInit ==
    /\ FnIdle
    /\ pin \in ValidFrames

CallEncode == Call("convert_to_canet", convert_to_canet(pin))

\* the 13 bytes written are read back on the connection of bus `bus`
CallDecode ==
    /\ pout.fn = "convert_to_canet"
    /\ pout.res.tag # "Panic"
    /\ \E bus \in FrameBuses :
         pout' = [fn |-> "decode_canet_frame", bus |-> bus, sent |-> pout.res,
                  res |-> decode_canet_frame(pout.res.buf, bus)]
    /\ UNCHANGED <<gvars, pin>>

CodecNext ==
    \/ CallEncode
    \/ CallDecode

SpecCodec == CodecInit /\ [][CodecNext]_vars

\* raw identifier fields tried, as the 4 header bytes: 0, 1, 0x7FE, 0x7FF,
\* 0x800, 0x1FFFFFFF, 0x80000000, 0x80000800, 0x9FFFFFFE, 0x9FFFFFFF,
\* 0xA0000000, 0xFFFFFFFF
RawIds ==
    { <<0, 0, 0, 0>>, <<1, 0, 0, 0>>, <<254, 7, 0, 0>>, <<255, 7, 0, 0>>,
      <<0, 8, 0, 0>>, <<255, 255, 255, 31>>, <<0, 0, 0, 128>>, <<0, 8, 0, 128>>,
      <<254, 255, 255, 159>>, <<255, 255, 255, 159>>, <<0, 0, 0, 160>>,
      <<255, 255, 255, 255>> }

BuildInit ==
    /\ FnIdle
    /\ pin \in [raw : RawIds, b4 : {0, 1, 2, 3, 255}, b5 : {0, 2, 8, 15, 242},
                data : {<<170, 187, 0, 0, 0, 0, 0, 0>>}]

CallBuild ==
    Call("build_can_frame", build_can_frame(pin.raw \o <<pin.b4, pin.b5>>, pin.data))

BuildNext == CallBuild

SpecBuild == BuildInit /\ [][BuildNext]_vars

\* decode_gvret_frames run on the bytes of `stream`, all of which have
\* arrived, from position d until it returns or the bytes run out
RECURSIVE decode_gvret_run(_, _, _, _, _)
decode_gvret_run(d, stream, m, num_busses, elapsed) ==
    IF stream = <<>>
    THEN [dec |-> d, rest |-> <<>>, mode |-> m, ret |-> Running]
    ELSE LET s == decode_gvret_frames(d, stream, m, num_busses, elapsed)
         IN  IF s.ret.tag # "Running" THEN s
             ELSE decode_gvret_run(s.dec, s.rest, s.mode, num_busses, elapsed)

\* the bytes that follow the command byte: a header of 6 bytes and a payload
DecoderTails ==
    { <<1, 0, 0, 0, 0, 2, 170, 187>>,               \* id 1, bus 0, 2 bytes
      <<1, 0, 0, 0, 1, 0>>,                         \* id 1, bus 1, no payload
      <<1, 0, 0, 0, 2, 0, 241, 9>>,                 \* bus 2, then F1 09
      <<0, 8, 0, 128, 1, 15, 1, 2, 3, 4, 5, 6, 7, 8, 231>>,  \* nibble 15, then E7
      <<255, 7, 0, 0, 0, 0>> }                      \* raw id 0x7FF

DecoderInit ==
    /\ FnIdle
    /\ pin \in [cmd : 0..255, tail : DecoderTails, mode : {"Init", "Binary"}]

\* the decoder reads 0xF1, the command byte and what follows it
CallDecodeGvret ==
    Call("decode_gvret_frames",
         decode_gvret_run(DecTop, <<241, pin.cmd>> \o pin.tail, pin.mode, busses, U32(1)))

DecoderNext == CallDecodeGvret

SpecDecoder == DecoderInit /\ [][DecoderNext]_vars

----------------------------------------------------------------------------
(* Claims *)

\* a with bit 31 cleared
ClearBit31(a) == [a EXCEPT !.hi = a.hi % 32768]

\* the identifier the BuildCanFrame command denotes: the raw field when it is
\* at most 0x7FF, else the raw field with bit 31 cleared
DenotedId(raw) == IF U32Gt(raw, U32(2047)) THEN ClearBit31(raw) ELSE raw

\* a completed branch of the client decoder that returned a Frame
ClientFrameDone == last.src = "gvret" /\ last.ret.tag = "Frame"

\* C1: every Frame the client decoder produces is written as one 13-byte
\* adapter frame to the connection its bus field selects: bus 0 to the first
\* connection, bus 1 to the second, and a bus 0 frame never to the second.
C1_RoutedByBusField ==
    ClientFrameDone =>
        /\ last.ret.val.bus = 0 => (wsock = "canet1" /\ Len(wmsg) = 13)
        /\ (last.ret.val.bus = 1 /\ busses = 2) => (wsock = "canet2" /\ Len(wmsg) = 13)
        /\ ~(last.ret.val.bus = 0 /\ wsock = "canet2")

\* C2: the gateway stops exactly when a socket write fails: whenever it has
\* stopped, a write-half returned an error; no client bytes, adapter frame or
\* read error stops it.
C2_StopsOnlyOnWriteError ==
    pc \notin {"select", "write", "flush"} => (pc = "aborted" /\ wsock \in Sockets)

\* a step in which the decoder, at the top of its byte loop, reads 0xE7
ReadsHandshakeAtTop ==
    /\ pc = "select"
    /\ dec.st = "top"
    /\ inbuf["gvret"] # <<>>
    /\ Head(inbuf["gvret"]) = 231
    /\ inbuf'["gvret"] = Tail(inbuf["gvret"])

\* C3: the first 0xE7 read at the top of the byte loop in mode Init sets the
\* mode to Binary and produces no output; a later 0xE7 read there changes
\* nothing; the mode changes in no other step, so Binary never returns to Init
\* and Init -> Binary happens at most once.
C3_HandshakeOnce ==
    [][ /\ ReadsHandshakeAtTop =>
             /\ mode' = "Binary"
             /\ dec' = DecTop
             /\ UNCHANGED <<pc, rbuf, wsock, wmsg, wbuf, out, last>>
        /\ mode' # mode => (mode = "Init" /\ mode' = "Binary" /\ ReadsHandshakeAtTop)
        /\ mode = "Binary" => mode' = "Binary" ]_vars

\* C3 witness: the handshake is done and another 0xE7 is about to be read at
\* the top of the byte loop
C3_Witness ==
    /\ mode = "Binary"
    /\ pc = "select"
    /\ dec.st = "top"
    /\ inbuf["gvret"] # <<>>
    /\ Head(inbuf["gvret"]) = 231

\* every message written before the one in progress is complete, and the one
\* in progress is the handler's buffer up to the bytes not yet written
C4_State ==
    /\ \A s \in Sockets : \A i \in 1..Len(out[s]) :
         (i < Len(out[s]) \/ s # wsock \/ pc \in {"select", "panicked"})
             => out[s][i].written = out[s][i].msg
    /\ pc \in {"write", "flush", "aborted"} =>
         /\ wsock \in Sockets
         /\ out[wsock] # <<>>
         /\ out[wsock][Len(out[wsock])].msg = wmsg
         /\ out[wsock][Len(out[wsock])].written \o wbuf = wmsg
    /\ pc = "flush" => wbuf = <<>>
    /\ pc \in {"write", "flush"} => (dec = DecTop /\ rbuf = [a \in Adapters |-> <<>>])

\* a step starts a message only from the select, for the one source it read,
\* on one socket; bytes are added only to the message in progress
C4_Step ==
    LET Total(o) == Len(o["gvret"]) + Len(o["canet1"]) + Len(o["canet2"])
    IN  /\ Total(out') \in {Total(out), Total(out) + 1}
        /\ Total(out') = Total(out) + 1 =>
             /\ pc = "select" /\ pc' = "write"
             /\ last'.src \in Sockets
             /\ \A s \in Sockets \ {last'.src} : inbuf'[s] = inbuf[s]
             /\ inbuf'[last'.src] # inbuf[last'.src]
             /\ \A s \in Sockets \ {wsock'} : out'[s] = out[s]
             /\ out'[wsock'] = Append(out[wsock'], [msg |-> wmsg', written |-> <<>>])
             /\ wmsg' # <<>>
        /\ (Total(out') = Total(out) /\ out' # out) =>
             /\ pc = "write"
             /\ \A s \in Sockets \ {wsock} : out'[s] = out[s]
             /\ \E k \in 1..Len(wbuf) :
                  out' = [out EXCEPT ![wsock][Len(out[wsock])].written = @ \o SubSeq(wbuf, 1, k)]
        /\ (pc \in {"write", "flush"} /\ pc' = "select") => (pc = "flush" /\ wbuf = <<>>)

\* C4: each iteration of the loop services one source, and what it writes for
\* it is written completely to one socket before the next iteration begins; on
\* every socket the bytes of two messages never interleave.
C4_Serialized == []C4_State /\ [][C4_Step]_vars

\* C4 witness: a message is partly written while another source has bytes ready
C4_Witness ==
    /\ pc = "write"
    /\ wbuf # <<>>
    /\ Len(wbuf) < Len(wmsg)
    /\ \E s \in Sockets : inbuf[s] # <<>>

\* C5: encoding a valid Frame with convert_to_canet gives 13 bytes, and
\* decoding them with decode_canet_frame gives a Frame of the same variant
\* with equal id, extended flag, dlc and payload, on the bus of the decode call.
C5_RoundTrip ==
    /\ pout.fn = "convert_to_canet" =>
         (pout.res.tag \in {"Can1", "Can2"} /\ Len(pout.res.buf) = 13)
    /\ pout.fn = "decode_canet_frame" =>
         /\ pout.res.tag = "Some"
         /\ pout.res.val.kind = pin.kind
         /\ Message_id(pout.res.val) = Message_id(pin)
         /\ Message_ext_id(pout.res.val) = Message_ext_id(pin)
         /\ Message_dlc(pout.res.val) = Message_dlc(pin)
         /\ Message_data(pout.res.val) = Message_data(pin)
         /\ Message_bus(pout.res.val) = pout.bus

\* C5 witness: an extended remote frame with the largest identifier has been
\* encoded and decoded on the other bus
C5_Witness ==
    /\ pout.fn = "decode_canet_frame"
    /\ pin.kind = "Remote"
    /\ pin.frame.id = U32(536870911)
    /\ pin.frame.dlc = 8
    /\ pout.bus # pin.bus
    /\ pout.res.tag = "Some"

\* the identifier of the call is within the mask its extended flag implies
C6_IdInRange ==
    IF pin.ext_id
    THEN ~U32Gt(pin.id, [hi |-> 8191, lo |-> 65535])
    ELSE ~U32Gt(pin.id, [hi |-> 0, lo |-> 2047])

\* C6: a frame constructor succeeds if and only if the id is within the mask of
\* its extended flag and the length (or declared dlc) is at most 8; an id out
\* of range fails with IdTooLong, an id in range with length 9 or more fails
\* with DataTooLong; the frame built holds the arguments.
C6_Construction ==
    pout.fn # "none" =>
        /\ pout.res.tag = "Ok" <=> (C6_IdInRange /\ pin.len <= 8)
        /\ ~C6_IdInRange => pout.res = [tag |-> "Err", err |-> "IdTooLong"]
        /\ (C6_IdInRange /\ pin.len >= 9) => pout.res = [tag |-> "Err", err |-> "DataTooLong"]
        /\ (pout.res.tag = "Ok" /\ pout.fn = "Message::new_data") =>
             pout.res.val = [kind |-> "Data", bus |-> pin.bus,
                             frame |-> [id |-> pin.id, ext_id |-> pin.ext_id,
                                        data |-> Payload(pin.len)]]
        /\ (pout.res.tag = "Ok" /\ pout.fn = "Message::new_remote") =>
             pout.res.val = [kind |-> "Remote", bus |-> pin.bus,
                             frame |-> [id |-> pin.id, ext_id |-> pin.ext_id,
                                        dlc |-> pin.len]]
        /\ (pout.res.tag = "Ok" /\ pout.fn = "DataFrame::new") =>
             pout.res.val = [id |-> pin.id, ext_id |-> pin.ext_id, data |-> Payload(pin.len)]
        /\ (pout.res.tag = "Ok" /\ pout.fn = "RemoteFrame::new") =>
             pout.res.val = [id |-> pin.id, ext_id |-> pin.ext_id, dlc |-> pin.len]

\* C6 witness: Message::new_data accepted a standard id equal to the mask with
\* 8 bytes of payload
C6_Witness ==
    /\ pout.fn = "Message::new_data"
    /\ pin.id = U32(2047)
    /\ ~pin.ext_id
    /\ pin.len = 8
    /\ pout.res.tag = "Ok"

\* C7: build_can_frame gives, for a raw identifier field of at most 0x7FF, a
\* standard Frame with that id; for a larger one an extended Frame whose id is
\* the field with bit 31 cleared when that id is at most 0x1FFFFFFF, and
\* otherwise a recoverable failure with no Frame, never an abort.
C7_IdentifierDecoding ==
    pout.fn = "build_can_frame" =>
        LET raw == from_le_bytes(pin.raw)
            id  == DenotedId(raw)
        IN  IF ~U32Gt(raw, U32(2047))
            THEN /\ pout.res.tag = "Ok"
                 /\ ~pout.res.val.frame.ext_id
                 /\ pout.res.val.frame.id = raw
            ELSE IF ~U32Gt(id, U32(536870911))
            THEN /\ pout.res.tag = "Ok"
                 /\ pout.res.val.frame.ext_id
                 /\ pout.res.val.frame.id = id
            ELSE pout.res.tag \notin {"Ok", "Panic"}

\* C8: every Frame in the gateway, decoded from a BuildCanFrame command or from
\* an adapter connection, has bus index 0 or 1, and every Frame handed to the
\* adapter encoder is mapped to one of the two adapter connections.
C8_BusIndex ==
    /\ (last.src \in Adapters /\ last.ret.tag = "Some") => last.ret.val.bus \in {0, 1}
    /\ ClientFrameDone =>
         /\ last.ret.val.bus \in {0, 1}
         /\ convert_to_canet(last.ret.val).tag \in {"Can1", "Can2"}
         /\ pc # "panicked"

\* the invariants of the frame model
FrameInvariant(msg) ==
    /\ ~U32Gt(msg.frame.id, IF msg.frame.ext_id THEN U32(536870911) ELSE U32(2047))
    /\ Message_dlc(msg) <= 8

\* C9: an adapter read gives a Frame that satisfies the frame invariants, or
\* nothing; a buffer whose id exceeds the mask of bit 7 of byte 0 or whose DLC
\* nibble is 9..15 (data or remote), and a read error, give nothing, and then
\* nothing is written and the loop continues.
C9_SilentReject ==
    last.src \in Adapters =>
        /\ last.ret.tag \in {"Some", "None"}
        /\ last.ret.tag = "Some" => FrameInvariant(last.ret.val)
        /\ Len(last.buf) < 13 => last.ret.tag = "None"
        /\ (Len(last.buf) = 13 /\ last.buf[1] % 16 >= 9) => last.ret.tag = "None"
        /\ (Len(last.buf) = 13
            /\ U32Gt(read_u32(SubSeq(last.buf, 2, 5)),
                     IF last.buf[1] >= 128 THEN U32(536870911) ELSE U32(2047)))
             => last.ret.tag = "None"
        /\ last.ret.tag = "None" => (pc = "select" /\ wsock = "none")

\* C10: for every BuildCanFrame command the decoder consumes exactly
\* min(low nibble of header byte 5, 8) payload bytes and the gateway writes one
\* 13-byte adapter frame: byte 0 = (0x80 if extended) | DLC, bytes 1-4 the
\* identifier big-endian, then the payload, then zeros; nothing goes to the
\* client.  Header 01 00 00 00 00 02 with data AA BB gives
\* 02 00 00 00 01 AA BB 00 00 00 00 00 00.
C10_ClientToAdapter ==
    (last.src = "gvret" /\ last.dec.st \in {"header", "data"} /\ last.dec.cmd = 0) =>
        LET h   == last.dec.header
            dlc == Min(h[6] % 16, 8)
            raw == from_le_bytes(SubSeq(h, 1, 4))
            b0  == (IF U32Gt(raw, U32(2047)) THEN 128 ELSE 0) + dlc
        IN  /\ Len(last.dec.data) = dlc
            /\ pc # "panicked"
            /\ wsock \in Adapters
            /\ wmsg = <<b0>> \o write_u32(DenotedId(raw)) \o last.dec.data \o Zeros(8 - dlc)
            /\ (h = <<1, 0, 0, 0, 0, 2>> /\ last.dec.data = <<170, 187>>) =>
                 wmsg = <<2, 0, 0, 0, 1, 170, 187, 0, 0, 0, 0, 0, 0>>

\* a step in which the 13-byte read of adapter connection a completes (with
\* 13 bytes or with an error); last'.buf is then the buffer it read
AdapterCompletes(a) ==
    /\ pc = "select"
    /\ Len(inbuf'[a]) < Len(inbuf[a])
    /\ rbuf'[a] = <<>>

\* 13 bytes that are a valid Data frame: bit 6 of byte 0 clear, DLC nibble at
\* most 8, identifier within the mask bit 7 of byte 0 selects
ValidDataBuf(buf) ==
    /\ Len(buf) = 13
    /\ (buf[1] \div 64) % 2 = 0
    /\ buf[1] % 16 <= 8
    /\ IF buf[1] >= 128
       THEN buf[2] < 32
       ELSE buf[2] = 0 /\ buf[3] = 0 /\ buf[4] < 8

\* the telemetry frame for adapter buffer buf received on connection k at time ts
Telemetry(k, buf, ts) ==
    <<241, 0>> \o ts
    \o <<buf[5], buf[4], buf[3], buf[2] + (IF buf[1] >= 128 THEN 128 ELSE 0)>>
    \o <<(k * 16) + (buf[1] % 16)>>
    \o SubSeq(buf, 6, 5 + (buf[1] % 16)) \o <<0>>

\* the index of an adapter connection
BusOf(a) == IF a = "canet1" THEN 0 ELSE 1

\* C11: for every valid 13-byte Data frame read on adapter connection k the
\* gateway starts exactly one write, to the client, of the telemetry frame of
\* 12 + DLC bytes: F1 00, 4 timestamp bytes, the identifier little-endian with
\* bit 31 set iff bit 7 of byte 0 was set, (k << 4) | DLC, the payload, 00;
\* nothing is written to an adapter connection.
C11_AdapterToClient ==
    [][ \A a \in Adapters :
          (AdapterCompletes(a) /\ ValidDataBuf(last'.buf)) =>
              /\ pc' = "write"
              /\ wsock' = "gvret"
              /\ Len(wmsg') = 12 + (last'.buf[1] % 16)
              /\ \A i \in 3..6 : wmsg'[i] \in 0..255
              /\ wmsg' = Telemetry(BusOf(a), last'.buf, SubSeq(wmsg', 3, 6))
              /\ out' = [out EXCEPT !["gvret"] = Append(@, [msg |-> wmsg', written |-> <<>>])]
      ]_vars

\* C11 witness: the extended frame 82 00 00 07 FF 11 22 .. read on the second
\* connection has been written to the client with bit 31 and bus 1
C11_Witness ==
    /\ last.src = "canet2"
    /\ last.buf = <<130, 0, 0, 7, 255, 17, 34, 0, 0, 0, 0, 0, 0>>
    /\ pc = "flush"
    /\ out["gvret"] # <<>>
    /\ SubSeq(out["gvret"][Len(out["gvret"])].written, 7, 14) = <<255, 7, 0, 128, 18, 17, 34, 0>>
    /\ out["canet1"] = <<>>
    /\ out["canet2"] = <<>>

\* a step in which the decoder reads byte c as the command byte after 0xF1
ReadsCommandByte(c) ==
    /\ pc = "select"
    /\ dec.st = "cmd"
    /\ inbuf["gvret"] # <<>>
    /\ Head(inbuf["gvret"]) = c
    /\ inbuf'["gvret"] = Tail(inbuf["gvret"])

\* the response to query command c; ts are the 4 timestamp bytes of TimeSync
QueryResponse(c, ts) ==
    CASE c = 1 -> <<241, 1>> \o ts
      [] c = 6 -> <<241, 6, 1, 32, 161, 7, 0>>
                  \o (IF busses = 2 THEN <<1, 32, 161, 7, 0>> ELSE <<>>)
      [] c = 7 -> <<241, 7, 106, 2, 32, 0, 0, 0>>
      [] c = 9 -> <<241, 9, 222, 173>>
      [] c = 12 -> <<241, 12, busses>>
      [] c = 13 -> <<241, 13, 0, 0, 0, 0, 0, 0, 0, 0, 0, 0, 0, 0, 0, 0, 0>>

\* C12: for each command 0xF1 c with c in {1, 6, 7, 9, 12, 13}, in mode Init
\* and in mode Binary, the gateway starts exactly one write, of the response
\* of c, to the client, and writes nothing to an adapter connection; the
\* timestamp of c = 1 is any 4 bytes.
C12_QueryCommands ==
    [][ \A c \in {1, 6, 7, 9, 12, 13} :
          ReadsCommandByte(c) =>
              /\ pc' = "write"
              /\ wsock' = "gvret"
              /\ mode' = mode
              /\ Len(wmsg') >= 3
              /\ c = 1 => (Len(wmsg') = 6 /\ \A i \in 3..6 : wmsg'[i] \in 0..255)
              /\ wmsg' = QueryResponse(c, SubSeq(wmsg', 3, Len(wmsg')))
              /\ out' = [out EXCEPT !["gvret"] = Append(@, [msg |-> wmsg', written |-> <<>>])]
      ]_vars

\* C12 witness: after the handshake, on a gateway with two buses, the response
\* to GetCanBusParams with both buses has been written to the client
C12_Witness ==
    /\ mode = "Binary"
    /\ busses = 2
    /\ pc = "flush"
    /\ last.src = "gvret"
    /\ out["gvret"] # <<>>
    /\ out["gvret"][Len(out["gvret"])].written
         = <<241, 6, 1, 32, 161, 7, 0, 1, 32, 161, 7, 0>>
    /\ out["canet1"] = <<>>
    /\ out["canet2"] = <<>>

\* a step in which a read of the decoder inside a command (the command byte,
\* the header or the payload) returns an error
ReadFailsInCommand ==
    /\ pc = "select"
    /\ dec.st \in {"cmd", "header", "data"}
    /\ inbuf["gvret"] # <<>>
    /\ Head(inbuf["gvret"]) < 0
    /\ inbuf'["gvret"] = Tail(inbuf["gvret"])

\* C13: a read error inside a command abandons the command: no Frame and no
\* response is produced, nothing is written, the mode is unchanged and the
\* decoder is back at the top of its byte loop holding nothing of the
\* abandoned command, so that what follows is decoded as if the abandoned
\* command had never been sent.
C13_ReadErrorAbandons ==
    [][ ReadFailsInCommand =>
          /\ dec'.st = "top"
          /\ dec' = [st |-> "top", cmd |-> 0, header |-> <<>>, data |-> <<>>]
          /\ pc' = "select"
          /\ UNCHANGED <<busses, mode, rbuf, wsock, wmsg, wbuf, out, last>>
          /\ \A a \in Adapters : inbuf'[a] = inbuf[a]
      ]_vars

\* C13 witness: a command was abandoned at a read error with nothing produced,
\* and a complete KeepAlive command follows it in the receive buffer
C13_Witness ==
    /\ sends = 2
    /\ inbuf = [s \in Sockets |-> IF s = "gvret" THEN <<241, 9>> ELSE <<>>]
    /\ dec.st = "top"
    /\ pc = "select"
    /\ mode = "Init"
    /\ last = NoLast
    /\ out = [s \in Sockets |-> <<>>]

\* the second adapter connection delivers no further byte: nothing of it is
\* buffered and the peers have made their last delivery
Canet2Stalled ==
    /\ inbuf["canet2"] = <<>>
    /\ rbuf["canet2"] = <<>>
    /\ sends = MaxSends

\* the gateway has stopped (a failed write, or a panic)
Stopped == pc \in {"aborted", "panicked"}

\* the complete command F1 09 is in the client's receive buffer and the decoder
\* is at the top of its byte loop
QueryReady ==
    /\ pc = "select"
    /\ dec.st = "top"
    /\ inbuf["gvret"] = <<241, 9>>

\* a complete valid Data frame is in the first adapter's receive buffer
FrameReady ==
    /\ pc = "select"
    /\ rbuf["canet1"] = <<>>
    /\ inbuf["canet1"] = <<2, 0, 0, 0, 1, 17, 34, 0, 0, 0, 0, 0, 0>>

\* message msg has been written to socket s, up to the timestamp bytes 3..6
Written(s, head, tail) ==
    \E i \in 1..Len(out[s]) :
        /\ out[s][i].written = out[s][i].msg
        /\ Len(out[s][i].msg) = Len(head) + 4 + Len(tail)
        /\ SubSeq(out[s][i].msg, 1, Len(head)) = head
        /\ SubSeq(out[s][i].msg, Len(head) + 5, Len(out[s][i].msg)) = tail

\* C14: under fair selection among the ready branches, while the second
\* adapter connection delivers nothing more, a complete query command of the
\* client is eventually answered and a complete valid Data frame of the first
\* adapter connection is eventually forwarded to the client, unless the
\* gateway has stopped.
C14_BranchIndependence ==
    /\ (Canet2Stalled /\ QueryReady)
          ~> (Stopped \/ \E i \in 1..Len(out["gvret"]) :
                            out["gvret"][i].written = <<241, 9, 222, 173>>)
    /\ (Canet2Stalled /\ FrameReady)
          ~> (Stopped \/ Written("gvret", <<241, 0>>, <<1, 0, 0, 0, 2, 17, 34, 0>>))

\* C15: when an adapter branch completes while the client decoder is inside a
\* command (past the 0xF1 prefix, the command byte, or part of the header or
\* payload), the decoder keeps its position and the bytes it has read, so the
\* rest of the command is parsed as its continuation.
C15_NoClientByteLost ==
    [][ \A a \in Adapters :
          (AdapterCompletes(a) /\ dec.st # "top") => dec' = dec ]_vars

\* C16: on each adapter connection a partially filled 13-byte read is kept
\* while another branch completes, so every decode starts at a multiple of 13
\* bytes of the connection's stream and no byte received is discarded.
C16_AdapterAlignment ==
    [][ \A a \in Adapters :
          (rbuf[a] # <<>> /\ inbuf'[a] = inbuf[a]) => rbuf'[a] = rbuf[a] ]_vars

\* C17: a command byte that is not enumerated (15..19, 23..255) is handled as
\* command 0: the decoder consumes the 6 header bytes and min(low nibble of
\* header byte 5, 8) payload bytes that follow and returns the Frame built
\* from them, the result of 0xF1 0x00 followed by the same bytes.
C17_UnknownIsBuildCanFrame ==
    (pout.fn = "decode_gvret_frames" /\ pin.cmd \in (15..19) \cup (23..255)) =>
        LET n    == Min(pin.tail[6] % 16, 8)
            zero == decode_gvret_run(DecTop, <<241, 0>> \o pin.tail, pin.mode, busses, U32(1))
            msg  == build_can_frame(SubSeq(pin.tail, 1, 6),
                                    SubSeq(pin.tail, 7, 6 + n) \o Zeros(8 - n))
        IN  /\ pout.res.ret = zero.ret
            /\ pout.res.rest = zero.rest
            /\ pout.res.mode = zero.mode
            /\ pout.res.rest = SubSeq(pin.tail, 7 + n, Len(pin.tail))
            /\ pout.res.dec.header = SubSeq(pin.tail, 1, 6)
            /\ pout.res.dec.data = SubSeq(pin.tail, 7, 6 + n)
            /\ IF msg.tag = "Ok"
               THEN pout.res.ret = [tag |-> "Frame", val |-> msg.val]
               ELSE pout.res.ret = msg

\* C17 witness: command 255 with a header whose low nibble is 15 returned the
\* extended Frame with 8 payload bytes and left the byte after them unread
C17_Witness ==
    /\ pout.fn = "decode_gvret_frames"
    /\ pin.cmd = 255
    /\ pout.res.ret.tag = "Frame"
    /\ pout.res.ret.val.frame.data = <<1, 2, 3, 4, 5, 6, 7, 8>>
    /\ pout.res.rest = <<231>>

\* a step in which the decoder, at the top of its byte loop, reads a byte that
\* is neither 0xF1 nor, in mode Init, 0xE7
ReadsStrayAtTop ==
    /\ pc = "select"
    /\ dec.st = "top"
    /\ inbuf["gvret"] # <<>>
    /\ Head(inbuf["gvret"]) \in 0..255
    /\ Head(inbuf["gvret"]) # 241
    /\ ~(Head(inbuf["gvret"]) = 231 /\ mode = "Init")
    /\ inbuf'["gvret"] = Tail(inbuf["gvret"])

\* C18: a stray byte read at the top of the byte loop produces no Frame and no
\* response, writes nothing, leaves the mode unchanged, and the next byte is
\* again read at the top of the byte loop.
C18_StrayIgnored ==
    [][ ReadsStrayAtTop =>
          /\ dec'.st = "top"
          /\ pc' = "select"
          /\ UNCHANGED <<mode, rbuf, wsock, wmsg, wbuf, out, last>>
          /\ \A a \in Adapters : inbuf'[a] = inbuf[a]
      ]_vars

\* C18 witness: of the segment 00 00 01 02 AA BB, sent outside a command, five
\* bytes have been read and ignored and the last is about to be read
C18_Witness ==
    /\ sends = 1
    /\ inbuf["gvret"] = <<187>>
    /\ dec.st = "top"
    /\ pc = "select"
    /\ mode = "Init"
    /\ last = NoLast
    /\ out = [s \in Sockets |-> <<>>]

\* 13 bytes that are a valid Remote frame: bit 6 of byte 0 set, DLC nibble at
\* most 8, identifier within the mask bit 7 of byte 0 selects
ValidRemoteBuf(buf) ==
    /\ Len(buf) = 13
    /\ (buf[1] \div 64) % 2 = 1
    /\ buf[1] % 16 <= 8
    /\ IF buf[1] >= 128
       THEN buf[2] < 32
       ELSE buf[2] = 0 /\ buf[3] = 0 /\ buf[4] < 8

\* C19: when the 13 bytes read on an adapter connection are a valid Remote
\* frame, they decode to a Remote frame, the telemetry encoder returns no
\* output, nothing is written to the client or to an adapter connection, and
\* the loop continues with its next iteration.
C19_RemoteNotReported ==
    [][ \A a \in Adapters :
          (AdapterCompletes(a) /\ ValidRemoteBuf(last'.buf)) =>
              /\ last'.ret.tag = "Some"
              /\ last'.ret.val.kind = "Remote"
              /\ pc' = "select"
              /\ out' = out
              /\ wbuf' = <<>>
              /\ mode' = mode
      ]_vars

\* C19 witness: the remote frame 41 00 00 00 01 .. was read on the first
\* connection, nothing was written and the loop is selecting again
C19_Witness ==
    /\ last.src = "canet1"
    /\ last.buf = <<65, 0, 0, 0, 1, 0, 0, 0, 0, 0, 0, 0, 0>>
    /\ last.ret.tag = "Some"
    /\ pc = "select"
    /\ out = [s \in Sockets |-> <<>>]

\* a step in which the decoder takes bytes from the client's socket
ClientBytesRead ==
    /\ pc = "select"
    /\ inbuf["gvret"] # <<>>
    /\ Len(inbuf'["gvret"]) < Len(inbuf["gvret"])

\* C20: the mode changes only from Init to Binary; command dispatch (the read
\* of the 0xF1 prefix, of the command byte, of the header and of the payload),
\* the adapter branches, the writes and the deliveries leave it unchanged; the
\* mode is always Init or Binary, never Command.
C20_ModeInitToBinaryOnly ==
    /\ [](mode \in {"Init", "Binary"})
    /\ [][ /\ mode' # mode => (mode = "Init" /\ mode' = "Binary")
           /\ (ClientBytesRead /\ (dec.st # "top" \/ Head(inbuf["gvret"]) = 241))
                 => mode' = mode
           /\ ~ClientBytesRead => mode' = mode ]_vars

\* C20 witness: after the handshake a BuildCanFrame command was dispatched and
\* its adapter frame is being written, in mode Binary
C20_Witness ==
    /\ mode = "Binary"
    /\ last.src = "gvret"
    /\ last.ret.tag = "Frame"
    /\ pc = "write"
    /\ wsock \in Adapters

\* a step in which the read that ends a BuildCanFrame command (of the header
\* when there is no payload, else of the payload) completes and the decoder
\* returns; last'.ret is then what it returned
FrameCommandReturns ==
    /\ pc = "select"
    /\ dec.st \in {"header", "data"}
    /\ inbuf["gvret"] # <<>>
    /\ Head(inbuf["gvret"]) >= 0
    /\ Len(inbuf'["gvret"]) < Len(inbuf["gvret"])
    /\ dec'.st = "top"

\* C21: when no second adapter connection is configured and the adapter
\* encoder selects the second connection for a client Frame, nothing is
\* written to any socket, no error is raised, the mode is unchanged and the
\* loop continues with its next iteration.
C21_AbsentBusDropped ==
    [][ ( /\ FrameCommandReturns
          /\ busses = 1
          /\ last'.ret.tag = "Frame"
          /\ convert_to_canet(last'.ret.val).tag = "Can2" ) =>
              /\ pc' = "select"
              /\ out' = out
              /\ wbuf' = <<>>
              /\ mode' = mode
              /\ busses' = 1
      ]_vars

\* C21 witness: on a gateway with one adapter connection the client's Frame
\* for bus 1 was decoded, nothing was written and the loop is selecting again
C21_Witness ==
    /\ busses = 1
    /\ last.src = "gvret"
    /\ last.ret.tag = "Frame"
    /\ last.ret.val.bus = 1
    /\ pc = "select"
    /\ wsock = "none"
    /\ out = [s \in Sockets |-> <<>>]

====
